---- MODULE Spec2Model ----
(***************************************************************************)
(* waterBrain: the brew-day calculator of src/waterBrain.py.               *)
(*                                                                         *)
(* BrewMath.calculate_water and BrewMath.calculate_chemistry are pure      *)
(* functions over Python floats; the Streamlit script around them keeps    *)
(* the two latest results in st.session_state and reloads the profile file *)
(* on every run.                                                           *)
(*                                                                         *)
(* Numbers.  A Python float is a binary floating-point number: every       *)
(* arithmetic operation returns the exact result rounded to the nearest    *)
(* representable value, ties to even.  The model keeps that: a number is a *)
(* record [m, e] standing for m * 2^e with |m| < 2^Precision, and FAdd,    *)
(* FSub, FMul, FDiv round exactly as IEEE-754 does, at a significand of    *)
(* Precision bits instead of 53 and with 2^-Underflow instead of 2^-1074   *)
(* as the smallest positive number: a result below it is rounded to a      *)
(* multiple of it, zero included (gradual underflow).  There is no largest *)
(* number: overflow to infinity (magnitudes beyond 1e308 in Python) is     *)
(* outside the model.                                                      *)
(*                                                                         *)
(* Session.  Every interaction reruns the script from its first line; what *)
(* survives a run is st.session_state.  The profile file is read again by  *)
(* every run and does not change while a session lasts.  A run that ends   *)
(* in an exception keeps the session state it had reached.                 *)
(***************************************************************************)
EXTENDS Integers, Sequences, FiniteSets, TLC

\* Bits of significand of the modelled float (Python: 53).
Precision == 10

\* Longest profile list the profile file holds.
MaxProfiles == 2

\* The smallest positive number is 2^-Underflow.
Underflow == 40


VARIABLES
  file,         \* target_water_profiles.json: how open/json.load fare, its content
  profiles,     \* the module global `profiles` of the latest script run
  water_res,    \* st.session_state.water_res
  chem_res,     \* st.session_state.chem_res
  shown_error,  \* the st.error text of the latest script run ("" when none)
  exception,    \* the exception that ended the latest script run ("" when none)
  rendered,     \* the buttons the latest script run got to render
  last_click,   \* the button the latest script run was started by
  chem_args,    \* the arguments of the call that produced chem_res
  w_in,         \* the arguments of a direct call of calculate_water
  w_out,        \* what that call returned
  c_in,         \* the arguments of a direct call of calculate_chemistry
  c_out         \* what that call returned

vars == <<file, profiles, water_res, chem_res, shown_error, exception, rendered,
          last_click, chem_args, w_in, w_out, c_in, c_out>>

session_vars == <<file, profiles, water_res, chem_res, shown_error, exception,
                  rendered, last_click, chem_args>>

call_vars == <<w_in, w_out, c_in, c_out>>

----------------------------------------------------------------------------
(* Floating-point arithmetic *)

Abs(n) == IF n < 0 THEN -n ELSE n

Sgn(n) == IF n < 0 THEN -1 ELSE IF n = 0 THEN 0 ELSE 1

MinInt(a, b) == IF a <= b THEN a ELSE b

MaxInt(a, b) == IF a >= b THEN a ELSE b

RECURSIVE BitLen(_)
BitLen(n) == IF n = 0 THEN 0 ELSE 1 + BitLen(n \div 2)

RECURSIVE Norm(_, _)
\* The canonical record of m * 2^e: m odd, or zero.
Norm(m, e) ==
  IF m = 0 THEN [m |-> 0, e |-> 0]
  ELSE IF m % 2 = 0 THEN Norm(m \div 2, e + 1)
  ELSE [m |-> m, e |-> e]

Zero == [m |-> 0, e |-> 0]

\* q * 2^e (q >= 0; plus a positive amount below one unit of q when sticky)
\* rounded to nearest, ties to even, at Precision bits or, below the normal
\* range, at a multiple of 2^-Underflow.
RoundTo(q, sticky, e) ==
  LET d == MaxInt(BitLen(q) - Precision, (-Underflow) - e)
  IN IF d <= 0 THEN Norm(q, e)
     ELSE IF d > BitLen(q) + 1 THEN Zero
     ELSE LET hi   == q \div (2 ^ d)
              low  == q % (2 ^ d)
              half == 2 ^ (d - 1)
              up   == \/ low > half
                      \/ low = half /\ (sticky \/ hi % 2 = 1)
          IN Norm(hi + (IF up THEN 1 ELSE 0), e + d)

\* The smallest positive number (5e-324 in Python).
Tiny == [m |-> 1, e |-> -Underflow]

Neg(a) == [m |-> -a.m, e |-> a.e]

Signed(s, a) == IF s < 0 THEN Neg(a) ELSE a

\* Position of the leading bit: |a| is in [2^(Top-1), 2^Top).
Top(a) == BitLen(Abs(a.m)) + a.e

\* int -> float conversion
FromInt(i) == Signed(i, RoundTo(Abs(i), FALSE, 0))

\* The float a decimal literal num/den (num, den > 0) denotes.
Lit(num, den) ==
  LET k == Precision + 2 + BitLen(den) - BitLen(num)
      s == IF k > 0 THEN k ELSE 0
      q == (num * (2 ^ s)) \div den
      r == (num * (2 ^ s)) % den
  IN RoundTo(q, r # 0, -s)

\* a + b
FAdd(a, b) ==
  IF a.m = 0 THEN b
  ELSE IF b.m = 0 THEN a
  ELSE IF Top(a) - Top(b) >= Precision + 2 THEN a
  ELSE IF Top(b) - Top(a) >= Precision + 2 THEN b
  ELSE LET e0 == MinInt(a.e, b.e)
           s  == a.m * (2 ^ (a.e - e0)) + b.m * (2 ^ (b.e - e0))
       IN Signed(s, RoundTo(Abs(s), FALSE, e0))

\* a - b
FSub(a, b) == FAdd(a, Neg(b))

\* a * b
FMul(a, b) ==
  Signed(Sgn(a.m) * Sgn(b.m), RoundTo(Abs(a.m) * Abs(b.m), FALSE, a.e + b.e))

\* a / b.  For b = 0 Python raises ZeroDivisionError and the call returns
\* nothing: the callers record every divisor (the field divisors), and a call
\* with a zero among them has raised.
FDiv(a, b) ==
  IF a.m = 0 \/ b.m = 0 THEN Zero
  ELSE LET s == Precision + 2 + BitLen(Abs(b.m)) - BitLen(Abs(a.m))
           q == (Abs(a.m) * (2 ^ s)) \div Abs(b.m)
           r == (Abs(a.m) * (2 ^ s)) % Abs(b.m)
       IN Signed(Sgn(a.m) * Sgn(b.m), RoundTo(q, r # 0, a.e - b.e - s))

\* -1, 0, 1 as a < b, a = b, a > b
Cmp(a, b) ==
  IF a.m = 0 THEN -Sgn(b.m)
  ELSE IF b.m = 0 THEN Sgn(a.m)
  ELSE IF Sgn(a.m) # Sgn(b.m) THEN Sgn(a.m)
  ELSE IF Top(a) # Top(b)
       THEN (IF Top(a) > Top(b) THEN Sgn(a.m) ELSE -Sgn(a.m))
  ELSE LET e0 == MinInt(a.e, b.e)
       IN Sgn(a.m * (2 ^ (a.e - e0)) - b.m * (2 ^ (b.e - e0)))

FLe(a, b) == Cmp(a, b) <= 0

FLt(a, b) == Cmp(a, b) < 0

\* Python min(a, b): the first minimal item
FMin(a, b) == IF FLt(b, a) THEN b ELSE a

\* Python max(a, b): the first maximal item
FMax(a, b) == IF FLt(a, b) THEN b ELSE a

----------------------------------------------------------------------------
(* Python values *)

\* None, and a held value, as sequences of length 0 and 1.
None == <<>>

Some(x) == <<x>>

\* Truth value of None or of a dict with keys: `if st.session_state.water_res:`
Truthy(v) == v # None

\* The float literals of the source.
f60_0     == Lit(60, 1)
f4_0      == Lit(4, 1)
f0_67     == Lit(67, 100)
f0_08     == Lit(8, 100)
f0_41     == Lit(41, 100)
f0_2      == Lit(2, 10)

----------------------------------------------------------------------------
(* BrewMath.calculate_water *)

\* pre_boil_vol = post_boil_vol + total_boiloff, with the sign slipped
pre_boil_minus(post_boil_vol, total_boiloff) == FSub(post_boil_vol, total_boiloff)

\* pre_boil_vol = post_boil_vol + total_boiloff
pre_boil(post_boil_vol, total_boiloff) == FAdd(post_boil_vol, total_boiloff)

\* total_water_needed = pre_boil_vol + total_abs, with the sign slipped
water_needed_minus(pre_boil_vol, total_abs) == FSub(pre_boil_vol, total_abs)

\* total_water_needed = pre_boil_vol + total_abs
water_needed(pre_boil_vol, total_abs) == FAdd(pre_boil_vol, total_abs)

\* `if method == "Sparge":` testing for the other literal instead
is_sparge_not_no(method) == method # "no_sparge"

\* `if method == "Sparge":`
is_sparge(method) == method = "Sparge"

\* strike_vol = min(strike_vol, total_water_needed), with the clamp left out
clamp_strike_none(strike_raw, total_water_needed) == strike_raw

\* strike_vol = min(strike_vol, total_water_needed)
clamp_strike(strike_raw, total_water_needed) == FMin(strike_raw, total_water_needed)

\* `if grain_wt > 0 and strike_vol > 0:` the condition under which the strike
\* temperature is computed from a ratio.
strike_temp_guard(grain_wt, strike_vol) ==
  FLt(Zero, grain_wt) /\ FLt(Zero, strike_vol)

\* The returned dict, and with it (divisors) every value the call divided by,
\* in order: a call with a zero divisor raises ZeroDivisionError instead of
\* returning.
calculate_water(grain_wt, grain_temp, mash_temp, target_vol, trub_loss, boil_time, boiloff_rate, abs_rate, method, thickness, is_metric) ==
  LET post_boil_vol == FAdd(target_vol, trub_loss)
      total_boiloff == FMul(boiloff_rate, FDiv(boil_time, f60_0))
      pre_boil_vol  == pre_boil(post_boil_vol, total_boiloff)
      total_abs     == IF is_metric
                       THEN FMul(grain_wt, abs_rate)
                       ELSE FDiv(FMul(grain_wt, abs_rate), f4_0)
      total_water_needed == water_needed(pre_boil_vol, total_abs)
      strike_raw    == IF is_metric
                       THEN FMul(grain_wt, thickness)
                       ELSE FDiv(FMul(grain_wt, thickness), f4_0)
      strike_vol    == IF is_sparge(method)
                       THEN clamp_strike(strike_raw, total_water_needed)
                       ELSE total_water_needed
      sparge_vol    == IF is_sparge(method)
                       THEN FSub(total_water_needed, strike_vol)
                       ELSE Zero
      grain_disp    == FMul(grain_wt, IF is_metric THEN f0_67 ELSE f0_08)
      total_mash_vol == FAdd(strike_vol, grain_disp)
      guard         == strike_temp_guard(grain_wt, strike_vol)
      ratio         == IF is_metric
                       THEN FDiv(strike_vol, grain_wt)
                       ELSE FDiv(FMul(strike_vol, f4_0), grain_wt)
      strike_temp   == IF guard
                       THEN FAdd(mash_temp,
                                 FMul(FDiv(IF is_metric THEN f0_41 ELSE f0_2, ratio),
                                      FSub(mash_temp, grain_temp)))
                       ELSE mash_temp
  IN [strike_vol |-> strike_vol, strike_temp |-> strike_temp,
      sparge_vol |-> sparge_vol, total_mash_vol |-> total_mash_vol,
      pre_boil_vol |-> pre_boil_vol, total_water |-> total_water_needed,
      divisors |-> <<f60_0>>
                   \o (IF is_metric THEN <<>> ELSE <<f4_0>>)
                   \o (IF is_sparge(method) /\ ~is_metric THEN <<f4_0>> ELSE <<>>)
                   \o (IF guard THEN <<grain_wt, ratio>> ELSE <<>>)]

\* Whether a call whose record is r raised ZeroDivisionError.
Raised(r) == \E i \in 1..Len(r.divisors) : r.divisors[i] = Zero

----------------------------------------------------------------------------
(* BrewMath.calculate_chemistry *)

f3_78541  == Lit(378541, 100000)
f0_453592 == Lit(56699, 125000)
f98_6     == Lit(986, 10)
f1000     == FromInt(1000)
f0_39     == Lit(39, 100)
f393_0    == Lit(393, 1)
f0_607    == Lit(607, 1000)
f558_0    == Lit(558, 1)
f0_233    == Lit(233, 1000)
f482_0    == Lit(482, 1)
f0_272    == Lit(272, 1000)
f540_0    == Lit(540, 1)
f0_1      == Lit(1, 10)
f5_70     == Lit(570, 100)
f0_018    == Lit(18, 1000)
f20_0     == Lit(20, 1)
f12_15    == Lit(1215, 100)
f0_04     == Lit(4, 100)
f0_03     == Lit(3, 100)
f3_0      == Lit(3, 1)
f2_3      == Lit(23, 10)
f1_21     == Lit(121, 100)

\* `if water_vol <= 0:` with the comparison strict
water_vol_guard_strict(water_vol) == FLt(water_vol, Zero)

\* `if water_vol <= 0: return {k: 0.0 ...}`
water_vol_guard(water_vol) == FLe(water_vol, Zero)

\* max(0, x) of the three remainders, with the clamp left out
clamp_rem_none(x) == x

\* max(0, x) of the three remainders
clamp_rem(x) == FMax(Zero, x)

\* max(0, x) of the acid total
clamp_acid(x) == FMax(Zero, x)

\* The returned dict, and with it (divisors) every value the call divided by.
calculate_chemistry(water_vol, srm, target_ph, grain_wt, tgt_ca, tgt_mg, tgt_na, tgt_so4, tgt_cl, is_metric) ==
  IF water_vol_guard(water_vol)
  THEN [gypsum |-> Zero, cacl2 |-> Zero, epsom |-> Zero, salt |-> Zero,
        lime |-> Zero, acid |-> Zero, acid_g |-> Zero, divisors |-> <<>>]
  ELSE
  LET vol_L    == IF is_metric THEN water_vol ELSE FMul(water_vol, f3_78541)
      grain_kg == IF is_metric THEN grain_wt ELSE FMul(grain_wt, f0_453592)
      g_epsom  == FDiv(FMul(tgt_mg, vol_L), f98_6)
      added_so4_epsom == FDiv(FMul(FMul(g_epsom, f1000), f0_39), vol_L)
      g_salt   == FDiv(FMul(tgt_na, vol_L), f393_0)
      added_cl_salt == FDiv(FMul(FMul(g_salt, f1000), f0_607), vol_L)
      rem_so4  == clamp_rem(FSub(tgt_so4, added_so4_epsom))
      g_gypsum == FDiv(FMul(rem_so4, vol_L), f558_0)
      added_ca_gypsum == FDiv(FMul(FMul(g_gypsum, f1000), f0_233), vol_L)
      rem_cl   == clamp_rem(FSub(tgt_cl, added_cl_salt))
      g_cacl2  == FDiv(FMul(rem_cl, vol_L), f482_0)
      added_ca_cacl2 == FDiv(FMul(FMul(g_cacl2, f1000), f0_272), vol_L)
      total_ca_salts == FAdd(added_ca_gypsum, added_ca_cacl2)
      rem_ca   == clamp_rem(FSub(tgt_ca, total_ca_salts))
      lime_due == FLt(f0_1, rem_ca)
      g_lime   == IF lime_due THEN FDiv(FMul(rem_ca, vol_L), f540_0) ELSE Zero
      base_mash_ph == FSub(f5_70, FMul(f0_018, srm))
      meq_ca   == FDiv(FAdd(total_ca_salts, rem_ca), f20_0)
      meq_mg   == FDiv(tgt_mg, f12_15)
      salt_ph_drop == FAdd(FMul(meq_ca, f0_04), FMul(meq_mg, f0_03))
      est_mash_ph  == FSub(base_mash_ph, salt_ph_drop)
      ml_acid_base == IF FLt(Zero, grain_kg)
                      THEN FMul(FMul(FSub(est_mash_ph, target_ph), grain_kg), f3_0)
                      ELSE Zero
      total_acid == clamp_acid(FAdd(ml_acid_base, FMul(g_lime, f2_3)))
  IN [gypsum |-> g_gypsum, cacl2 |-> g_cacl2, epsom |-> g_epsom, salt |-> g_salt,
      lime |-> g_lime, acid |-> total_acid, acid_g |-> FMul(total_acid, f1_21),
      divisors |-> <<f98_6, vol_L, f393_0, vol_L, f558_0, vol_L, f482_0, vol_L>>
                   \o (IF lime_due THEN <<f540_0>> ELSE <<>>)
                   \o <<f20_0, f12_15>>]

----------------------------------------------------------------------------
(* load_profiles and the profile file *)

DefaultProfile ==
  [name |-> "Default", ca |-> 50, mg |-> 10, na |-> 10, so4 |-> 50, cl |-> 50]

PaleAleProfile ==
  [name |-> "Pale Ale", ca |-> 140, mg |-> 18, na |-> 25, so4 |-> 300, cl |-> 55]

\* A JSON document: a list of profile objects, or a top-level object.
JsonList(items) == [kind |-> "list", items |-> items]

JsonObject == [kind |-> "object", items |-> <<>>]

ProfileLists ==
  UNION {[1..n -> {DefaultProfile, PaleAleProfile}] : n \in 0..MaxProfiles}

\* What open() and json.load() meet: no file, a file that cannot be read, a
\* file that is not JSON, or a JSON document.
FileStates ==
  {[st |-> s, json |-> JsonObject] : s \in {"missing", "unreadable", "malformed"}}
  \cup {[st |-> "ok", json |-> j] : j \in {JsonList(l) : l \in ProfileLists} \cup {JsonObject}}

load_profiles(f) ==
  IF f.st = "ok" THEN f.json ELSE JsonList(<<DefaultProfile>>)

\* next(p for p in profiles if p['name'] == selected_prof_name)
first_named(items, name) ==
  items[CHOOSE i \in 1..Len(items) :
          /\ items[i].name = name
          /\ \A j \in 1..(i - 1) : items[j].name # name]

----------------------------------------------------------------------------
(* The Streamlit script *)

\* The values the input widgets hold when a script run starts: the defaults
\* of either unit system and mash method, with the grain weight at its default
\* or at its minimum (lo), and with the volumes at their defaults or (ex) at
\* the least the number inputs accept, which have no min_value: the smallest
\* positive volume into the fermenter and no trub, boil-off or absorption.
Widgets ==
  {[is_metric |-> im, method |-> me,
    grain_wt |-> IF lo THEN Lit(1, 10) ELSE IF im THEN Lit(45, 10) ELSE Lit(10, 1),
    boil_time |-> FromInt(60),
    grain_temp |-> FromInt(IF im THEN 21 ELSE 70),
    mash_temp |-> FromInt(IF im THEN 67 ELSE 152),
    boiloff |-> IF ex THEN Zero ELSE IF im THEN Lit(38, 10) ELSE Lit(1, 1),
    absorption_rate |-> IF ex THEN Zero ELSE IF im THEN Lit(104, 100) ELSE Lit(5, 10),
    trub_vol |-> IF ex THEN Zero ELSE IF im THEN Lit(1, 1) ELSE Lit(25, 100),
    ferm_vol |-> IF ex THEN Tiny ELSE IF im THEN Lit(21, 1) ELSE Lit(55, 10),
    thickness |-> IF me = "Sparge" THEN (IF im THEN Lit(3, 1) ELSE Lit(15, 10))
                  ELSE Lit(3, 1),
    srm |-> FromInt(5), target_ph |-> Lit(54, 10)] :
   im \in BOOLEAN, me \in {"No Sparge (BIAB)", "Sparge"},
   lo \in BOOLEAN, ex \in BOOLEAN}

\* The handler without `st.session_state.chem_res = None`
water_store_keep(ss, res) ==
  IF Raised(res)
  THEN [ss EXCEPT !.exception = "ZeroDivisionError"]
  ELSE [ss EXCEPT !.water_res = Some(res)]

\* What CALCULATE WATER VOLUMES does with the value of its call: store it and
\* drop the salts result, or end the run in the exception the call raised.
water_store(ss, res) ==
  IF Raised(res)
  THEN [ss EXCEPT !.exception = "ZeroDivisionError"]
  ELSE [ss EXCEPT !.water_res = Some(res), !.chem_res = None, !.chem_args = None]

\* CALCULATE WATER VOLUMES: the session state the handler leaves.
water_handler(ss, w) ==
  water_store(ss,
    calculate_water(w.grain_wt, w.grain_temp, w.mash_temp, w.ferm_vol,
                    w.trub_vol, w.boil_time, w.boiloff, w.absorption_rate,
                    IF w.method = "Sparge" THEN "Sparge" ELSE "no_sparge",
                    w.thickness, w.is_metric))

\* The arguments CALCULATE SALTS passes with profile prof selected.
salts_args(ss, w, prof) ==
  [water_vol |-> ss.water_res[1].total_water, srm |-> w.srm,
   target_ph |-> w.target_ph, grain_wt |-> w.grain_wt,
   tgt_ca |-> FromInt(prof.ca), tgt_mg |-> FromInt(prof.mg),
   tgt_na |-> FromInt(prof.na), tgt_so4 |-> FromInt(prof.so4),
   tgt_cl |-> FromInt(prof.cl), is_metric |-> w.is_metric]

chemistry_of(a) ==
  calculate_chemistry(a.water_vol, a.srm, a.target_ph, a.grain_wt,
                      a.tgt_ca, a.tgt_mg, a.tgt_na, a.tgt_so4, a.tgt_cl, a.is_metric)

\* What CALCULATE SALTS does with the value of its call on the arguments a.
salts_store(ss, a, res) ==
  IF Raised(res)
  THEN [ss EXCEPT !.exception = "ZeroDivisionError"]
  ELSE [ss EXCEPT !.chem_res = Some(res), !.chem_args = Some(a)]

salts_call(ss, a) == salts_store(ss, a, chemistry_of(a))

\* The handler testing the other session key, `if st.session_state.chem_res:`
salts_handler_other_key(ss, w, prof) ==
  IF Truthy(ss.chem_res)
  THEN salts_call(ss, salts_args(ss, w, prof))
  ELSE [ss EXCEPT !.shown_error = "Calculate Volumes first!"]

\* CALCULATE SALTS: the session state the handler leaves.
salts_handler(ss, w, prof) ==
  IF Truthy(ss.water_res)
  THEN salts_call(ss, salts_args(ss, w, prof))
  ELSE [ss EXCEPT !.shown_error = "Calculate Volumes first!"]

\* The session state a script run starts from, with what it loaded.
run_start(loaded) ==
  [profiles |-> loaded, water_res |-> water_res, chem_res |-> chem_res,
   chem_args |-> chem_args, shown_error |-> "", exception |-> "", rendered |-> {}]

\* profile_names = [p['name'] for p in profiles]: a TypeError unless the
\* document is a list of objects.
names_ok(loaded) == loaded.kind = "list"

\* selectbox, then next(...) over the profiles: StopIteration on an empty list.
prof_ok(loaded) == Len(loaded.items) > 0

\* The script up to the end of the `if st.button("CALCULATE WATER VOLUMES")`
\* block, which leaves the session state at button: the handler's result in a
\* run the button started, the state the run started from in any other.
run_water(ss0, button) ==
  IF ~names_ok(ss0.profiles) THEN [ss0 EXCEPT !.exception = "TypeError"]
  ELSE [button EXCEPT !.rendered = {"water"}]

\* The script from the profile selection to the end of the
\* `if st.button("CALCULATE SALTS")` block, which leaves the state at button.
run_salts(ss1, button) ==
  IF ss1.exception # "" THEN ss1
  ELSE IF ~prof_ok(ss1.profiles) THEN [ss1 EXCEPT !.exception = "StopIteration"]
  ELSE [button EXCEPT !.rendered = {"water", "salts"}]

\* The profile the selectbox holds with its k-th option selected.
selected(ss, k) == first_named(ss.profiles.items, ss.profiles.items[k].name)

\* The session a run started by click leaves in state end.
run_end(end, click) ==
  /\ profiles' = end.profiles
  /\ water_res' = end.water_res
  /\ chem_res' = end.chem_res
  /\ chem_args' = end.chem_args
  /\ shown_error' = end.shown_error
  /\ exception' = end.exception
  /\ rendered' = end.rendered
  /\ last_click' = click
  /\ UNCHANGED <<file, call_vars>>

\* Before the first run of a session: nothing loaded, nothing held.
Init ==
  /\ file \in FileStates
  /\ profiles = JsonList(<<>>)
  /\ water_res = None
  /\ chem_res = None
  /\ chem_args = None
  /\ shown_error = ""
  /\ exception = ""
  /\ rendered = {}
  /\ last_click = "none"
  /\ w_in = None /\ w_out = None /\ c_in = None /\ c_out = None

\* The first run of the script, or a run started by editing a widget: no
\* button reports a click.
Rerun ==
  \E ss0 \in {run_start(load_profiles(file))} :
  \E ss1 \in {run_water(ss0, ss0)} :
  \E end \in {run_salts(ss1, ss1)} : run_end(end, "none")

\* A run started by CALCULATE WATER VOLUMES with the widgets at w.
CalculateWaterClick ==
  /\ "water" \in rendered
  /\ \E w \in Widgets :
     \E ss0 \in {run_start(load_profiles(file))} :
     \E ss1 \in {run_water(ss0, water_handler(ss0, w))} :
     \E end \in {run_salts(ss1, ss1)} : run_end(end, "water")

\* A run started by CALCULATE SALTS with the widgets at w and the k-th
\* profile name selected.
CalculateSaltsClick ==
  /\ "salts" \in rendered
  /\ \E w \in Widgets : \E k \in 1..Len(profiles.items) :
     \E ss0 \in {run_start(load_profiles(file))} :
     \E ss1 \in {run_water(ss0, ss0)} :
     \E end \in {run_salts(ss1, salts_handler(ss1, w, selected(ss1, k)))} :
        run_end(end, "salts")

Next == Rerun \/ CalculateWaterClick \/ CalculateSaltsClick

Spec == Init /\ [][Next]_vars

----------------------------------------------------------------------------
(* Direct calls of the two calculations *)

\* The values a call is tried on, by argument.  The volumes and rates include
\* zero, the smallest positive number and the negative values the widgets,
\* which set no min_value but on the grain weight, accept.
GrainWeights == {Zero, Lit(1, 10), Lit(45, 10), Lit(10, 1)}

TargetVolumes == {Tiny, Lit(55, 10), Lit(21, 1)}

TrubLosses == {Zero, Lit(25, 100)}

BoilTimes == {FromInt(-30), Zero, FromInt(60), FromInt(90)}

BoiloffRates == {Neg(Lit(1, 1)), Zero, Lit(38, 10)}

AbsorptionRates == {Neg(Lit(5, 10)), Zero, Lit(5, 10), Lit(104, 100)}

Thicknesses == {Neg(Lit(1, 1)), Zero, Lit(15, 10), Lit(3, 1)}

WaterInputs ==
  [grain_wt : GrainWeights,
   grain_temp : {FromInt(21)},
   mash_temp : {FromInt(67), FromInt(152)},
   target_vol : TargetVolumes,
   trub_loss : TrubLosses,
   boil_time : BoilTimes,
   boiloff_rate : BoiloffRates,
   abs_rate : AbsorptionRates,
   method : {"Sparge", "no_sparge", "No Sparge (BIAB)"},
   thickness : Thicknesses,
   is_metric : BOOLEAN]

ChemInputs ==
  [water_vol : {Neg(Lit(1, 1)), Zero, Lit(8, 1), Lit(20, 1)},
   srm : {FromInt(1), FromInt(5), FromInt(40)},
   target_ph : {Lit(45, 10), Lit(54, 10), Lit(65, 10)},
   grain_wt : {Zero, Lit(45, 10), Lit(10, 1)},
   tgt_ca : {FromInt(0), FromInt(50), FromInt(150)},
   tgt_mg : {FromInt(0), FromInt(10), FromInt(40)},
   tgt_na : {FromInt(0), FromInt(10)},
   tgt_so4 : {FromInt(0), FromInt(50), FromInt(300)},
   tgt_cl : {FromInt(0), FromInt(50)},
   is_metric : BOOLEAN]

water_of(a) ==
  calculate_water(a.grain_wt, a.grain_temp, a.mash_temp, a.target_vol, a.trub_loss,
                  a.boil_time, a.boiloff_rate, a.abs_rate, a.method, a.thickness,
                  a.is_metric)

MathInit ==
  /\ file = [st |-> "missing", json |-> JsonObject]
  /\ profiles = JsonList(<<>>)
  /\ water_res = None /\ chem_res = None /\ chem_args = None
  /\ shown_error = "" /\ exception = "" /\ rendered = {} /\ last_click = "none"
  /\ w_out = None /\ c_out = None
  /\ \/ w_in \in {Some(a) : a \in WaterInputs} /\ c_in = None
     \/ c_in \in {Some(a) : a \in ChemInputs} /\ w_in = None

CallWater ==
  /\ w_in # None /\ w_out = None
  /\ w_out' = Some(water_of(w_in[1]))
  /\ UNCHANGED <<session_vars, w_in, c_in, c_out>>

CallChemistry ==
  /\ c_in # None /\ c_out = None
  /\ c_out' = Some(chemistry_of(c_in[1]))
  /\ UNCHANGED <<session_vars, w_in, w_out, c_in>>

MathNext == CallWater \/ CallChemistry

SpecMath == MathInit /\ [][MathNext]_vars

----------------------------------------------------------------------------
(* Properties of the session (Spec) *)

\* C1: a chemistry request issued while no water result is held fails with the
\* error "Calculate Volumes first!" and produces no chemistry result; one
\* issued while a water result is held produces a chemistry result and no
\* error.  (A run started by CALCULATE SALTS leaves water_res as it found it.)
ChemistryNeedsWater ==
  last_click = "salts" =>
    IF water_res = None
    THEN shown_error = "Calculate Volumes first!" /\ chem_res = None
    ELSE chem_res # None /\ shown_error = "" /\ exception = ""

\* C1, its case: CALCULATE SALTS was pressed before any water calculation.
ChemistryRefused ==
  /\ last_click = "salts"
  /\ water_res = None
  /\ shown_error = "Calculate Volumes first!"

\* C9: whatever the state of the profile file, what a run has loaded is a
\* sequence of at least one profile, and after a load failure it is the single
\* default profile.
LoadedProfilesNonEmpty ==
  (rendered # {} \/ exception # "") =>
    /\ profiles.kind = "list"
    /\ Len(profiles.items) >= 1
    /\ file.st # "ok" => profiles = JsonList(<<DefaultProfile>>)

\* C10: if a chemistry result is held then a water result is held and the
\* chemistry result is the value of calculate_chemistry on the total_water of
\* that water result; and a water calculation that returned has left no
\* chemistry result.
ChemistryFromHeldWater ==
  /\ chem_res # None =>
       /\ water_res # None
       /\ chem_args # None
       /\ chem_args[1].water_vol = water_res[1].total_water
       /\ chem_res[1] = chemistry_of(chem_args[1])
  /\ (last_click = "water" /\ exception = "") =>
       water_res # None /\ chem_res = None

\* C10, its case: a chemistry result computed from a water result is held.
ChemistryHeld ==
  /\ chem_res # None
  /\ water_res # None
  /\ FLt(Zero, water_res[1].total_water)
  /\ rendered = {"water", "salts"}

----------------------------------------------------------------------------
(* Properties of the two calculations (SpecMath) *)

\* A call of calculate_water has returned (it did not raise).
WaterReturned == w_out # None /\ ~Raised(w_out[1])

\* A call of calculate_chemistry has returned.
ChemistryReturned == c_out # None /\ ~Raised(c_out[1])

\* |a|
FAbs(a) == [m |-> Abs(a.m), e |-> a.e]

\* One unit in the last place of the largest magnitude in the set S of
\* numbers: 2^(1 - Precision) times it, rounded down to a power of two.
Ulp(S) ==
  IF \A a \in S : a.m = 0 THEN Zero
  ELSE [m |-> 1,
        e |-> (CHOOSE t \in {Top(a) : a \in {b \in S : b.m # 0}} :
                 \A a \in S : a.m # 0 => Top(a) <= t) - Precision]

\* abs((x + y) - z) as floating point computes it is at most one unit in the
\* last place of the largest of the three.
WithinOneUlp(x, y, z) == FLe(FAbs(FSub(FAdd(x, y), z)), Ulp({x, y, z}))

\* C2 as stated: with method Sparge the returned strike_vol + sparge_vol is
\* equal to total_water and strike_vol <= total_water.
SpargeSplitExact ==
  (WaterReturned /\ w_in[1].method = "Sparge") =>
    /\ FAdd(w_out[1].strike_vol, w_out[1].sparge_vol) = w_out[1].total_water
    /\ FLe(w_out[1].strike_vol, w_out[1].total_water)

\* C2, amended: with method Sparge the returned strike_vol <= total_water and
\* sparge_vol >= 0, and strike_vol + sparge_vol, computed in floating point,
\* differs from total_water by at most one unit in the last place of the
\* largest of the three.
SpargeSplitWithinRounding ==
  (WaterReturned /\ w_in[1].method = "Sparge") =>
    /\ FLe(w_out[1].strike_vol, w_out[1].total_water)
    /\ FLe(Zero, w_out[1].sparge_vol)
    /\ WithinOneUlp(w_out[1].strike_vol, w_out[1].sparge_vol, w_out[1].total_water)

\* C2, its case: a Sparge call whose strike volume the clamp left below the
\* total, with water left to sparge.
SpargeSplitHappens ==
  /\ WaterReturned
  /\ w_in[1].method = "Sparge"
  /\ FLt(Zero, w_out[1].strike_vol)
  /\ FLt(w_out[1].strike_vol, w_out[1].total_water)
  /\ FLt(Zero, w_out[1].sparge_vol)

\* C3: with any method other than "Sparge" the returned sparge_vol is 0 and
\* strike_vol is total_water, and no other mash thickness changes the result.
NoSpargeAllStrike ==
  (WaterReturned /\ w_in[1].method # "Sparge") =>
    /\ w_out[1].sparge_vol = Zero
    /\ w_out[1].strike_vol = w_out[1].total_water
    /\ \A t \in Thicknesses :
         water_of([w_in[1] EXCEPT !.thickness = t]) = w_out[1]

\* C3, its case: a call with the method the script passes for "No Sparge
\* (BIAB)" returned a positive volume.
NoSpargeHappens ==
  /\ WaterReturned
  /\ w_in[1].method = "no_sparge"
  /\ FLt(Zero, w_out[1].total_water)
  /\ w_in[1].thickness = Lit(15, 10)

\* The five volumes of a returned WaterResult are all >= 0.
VolumesNonNegative(r) ==
  /\ FLe(Zero, r.strike_vol)
  /\ FLe(Zero, r.sparge_vol)
  /\ FLe(Zero, r.total_mash_vol)
  /\ FLe(Zero, r.pre_boil_vol)
  /\ FLe(Zero, r.total_water)

\* The domain the data model states: grain_weight > 0, target_volume > 0,
\* trub_loss >= 0, boil_time >= 0, the other fields unconstrained.
InStatedDomain(a) ==
  /\ FLt(Zero, a.grain_wt)
  /\ FLt(Zero, a.target_vol)
  /\ FLe(Zero, a.trub_loss)
  /\ FLe(Zero, a.boil_time)

\* C4 as stated: for inputs in the stated domain the five returned volumes
\* are all >= 0.
VolumesNonNegativeInStatedDomain ==
  (WaterReturned /\ InStatedDomain(w_in[1])) => VolumesNonNegative(w_out[1])

\* C4, amended: for inputs in the stated domain whose boiloff_rate,
\* absorption_rate and mash_thickness are >= 0 as well, the five returned
\* volumes are all >= 0.
VolumesNonNegativeForNonNegativeRates ==
  (/\ WaterReturned
   /\ InStatedDomain(w_in[1])
   /\ FLe(Zero, w_in[1].boiloff_rate)
   /\ FLe(Zero, w_in[1].abs_rate)
   /\ FLe(Zero, w_in[1].thickness)) => VolumesNonNegative(w_out[1])

\* C4, its case: a call in that domain with every rate positive returned,
\* with water in the mash and water left to sparge.
VolumesComputed ==
  /\ WaterReturned
  /\ InStatedDomain(w_in[1])
  /\ FLt(Zero, w_in[1].boiloff_rate)
  /\ FLt(Zero, w_in[1].abs_rate)
  /\ FLt(Zero, w_in[1].thickness)
  /\ FLt(Zero, w_in[1].boil_time)
  /\ FLt(Zero, w_out[1].sparge_vol)
  /\ FLt(w_out[1].pre_boil_vol, w_out[1].total_water)

\* The call on b, if it returns, returns at least the total_water the call on
\* a (the call of this state) returned.
NotLess(r, r2) == ~Raised(r2) => FLe(r.total_water, r2.total_water)

TotalNotLess(a, b) == NotLess(w_out[1], water_of(b))

\* C5 as stated: total_water is non-decreasing in each of target_volume,
\* trub_loss, boil_time, boiloff_rate and grain_weight, the others fixed.
TotalWaterMonotone ==
  WaterReturned =>
    /\ \A v \in TargetVolumes : FLt(w_in[1].target_vol, v) =>
          TotalNotLess(w_in[1], [w_in[1] EXCEPT !.target_vol = v])
    /\ \A v \in TrubLosses : FLt(w_in[1].trub_loss, v) =>
          TotalNotLess(w_in[1], [w_in[1] EXCEPT !.trub_loss = v])
    /\ \A v \in BoilTimes : FLt(w_in[1].boil_time, v) =>
          TotalNotLess(w_in[1], [w_in[1] EXCEPT !.boil_time = v])
    /\ \A v \in BoiloffRates : FLt(w_in[1].boiloff_rate, v) =>
          TotalNotLess(w_in[1], [w_in[1] EXCEPT !.boiloff_rate = v])
    /\ \A v \in GrainWeights : FLt(w_in[1].grain_wt, v) =>
          TotalNotLess(w_in[1], [w_in[1] EXCEPT !.grain_wt = v])

\* C5, amended: total_water is non-decreasing in target_volume and in
\* trub_loss; in boil_time when boiloff_rate >= 0; in boiloff_rate when
\* boil_time >= 0; in grain_weight when absorption_rate >= 0.
TotalWaterMonotoneForNonNegativeFactors ==
  WaterReturned =>
    /\ \A v \in TargetVolumes : FLt(w_in[1].target_vol, v) =>
          TotalNotLess(w_in[1], [w_in[1] EXCEPT !.target_vol = v])
    /\ \A v \in TrubLosses : FLt(w_in[1].trub_loss, v) =>
          TotalNotLess(w_in[1], [w_in[1] EXCEPT !.trub_loss = v])
    /\ FLe(Zero, w_in[1].boiloff_rate) =>
          \A v \in BoilTimes : FLt(w_in[1].boil_time, v) =>
            TotalNotLess(w_in[1], [w_in[1] EXCEPT !.boil_time = v])
    /\ FLe(Zero, w_in[1].boil_time) =>
          \A v \in BoiloffRates : FLt(w_in[1].boiloff_rate, v) =>
            TotalNotLess(w_in[1], [w_in[1] EXCEPT !.boiloff_rate = v])
    /\ FLe(Zero, w_in[1].abs_rate) =>
          \A v \in GrainWeights : FLt(w_in[1].grain_wt, v) =>
            TotalNotLess(w_in[1], [w_in[1] EXCEPT !.grain_wt = v])

\* C5, its case: a call that returned, with no negative factor and every one
\* of the five arguments below the largest value tried, so each can be
\* raised; raising the grain weight raises the total.
TotalWaterCompared ==
  /\ WaterReturned
  /\ FLe(Zero, w_in[1].boiloff_rate) /\ FLt(Zero, w_in[1].abs_rate)
  /\ FLt(Zero, w_in[1].boil_time)
  /\ \E v \in TargetVolumes : FLt(w_in[1].target_vol, v)
  /\ \E v \in TrubLosses : FLt(w_in[1].trub_loss, v)
  /\ \E v \in BoilTimes : FLt(w_in[1].boil_time, v)
  /\ \E v \in BoiloffRates : FLt(w_in[1].boiloff_rate, v)
  /\ \E v \in GrainWeights :
        /\ FLt(w_in[1].grain_wt, v)
        /\ FLt(w_out[1].total_water,
               water_of([w_in[1] EXCEPT !.grain_wt = v]).total_water)

\* C6: for inputs that are all >= 0 the call returns and the seven returned
\* fields are all >= 0.
ChemistryNonNegative ==
  (/\ c_in # None /\ c_out # None
   /\ FLe(Zero, c_in[1].water_vol) /\ FLe(Zero, c_in[1].srm)
   /\ FLe(Zero, c_in[1].target_ph) /\ FLe(Zero, c_in[1].grain_wt)
   /\ FLe(Zero, c_in[1].tgt_ca) /\ FLe(Zero, c_in[1].tgt_mg)
   /\ FLe(Zero, c_in[1].tgt_na) /\ FLe(Zero, c_in[1].tgt_so4)
   /\ FLe(Zero, c_in[1].tgt_cl)) =>
    /\ ~Raised(c_out[1])
    /\ FLe(Zero, c_out[1].gypsum) /\ FLe(Zero, c_out[1].cacl2)
    /\ FLe(Zero, c_out[1].epsom) /\ FLe(Zero, c_out[1].salt)
    /\ FLe(Zero, c_out[1].lime) /\ FLe(Zero, c_out[1].acid)
    /\ FLe(Zero, c_out[1].acid_g)

\* C6, its case: a call on a positive volume where the Epsom salt alone
\* brings more sulfate than the target, so the remainder is clamped, and
\* where acid is due.
ChemistryClamped ==
  /\ ChemistryReturned
  /\ FLt(Zero, c_in[1].water_vol)
  /\ FLt(Zero, c_in[1].tgt_so4)
  /\ c_out[1].gypsum = Zero
  /\ FLt(Zero, c_out[1].epsom)
  /\ FLt(Zero, c_out[1].acid)

\* C7: neither calculation divides by zero: no divisor of a call is zero; a
\* call of calculate_water with grain_wt <= 0 or strike_vol <= 0 divides by
\* neither grain_wt nor a ratio and returns strike_temp = mash_temp; a call of
\* calculate_chemistry with water_vol <= 0 divides by nothing.
NoDivisionByZero ==
  /\ w_out # None =>
       /\ ~Raised(w_out[1])
       /\ ~strike_temp_guard(w_in[1].grain_wt, w_out[1].strike_vol) =>
            /\ w_out[1].strike_temp = w_in[1].mash_temp
            /\ \A i \in 1..Len(w_out[1].divisors) :
                 w_out[1].divisors[i] \in {f60_0, f4_0}
  /\ c_out # None =>
       /\ ~Raised(c_out[1])
       /\ FLe(c_in[1].water_vol, Zero) => c_out[1].divisors = <<>>

\* C8: called with water_vol <= 0, calculate_chemistry returns, and all seven
\* returned fields are zero.
ChemistryZeroWithoutWater ==
  (c_in # None /\ c_out # None /\ FLe(c_in[1].water_vol, Zero)) =>
    /\ ~Raised(c_out[1])
    /\ c_out[1].gypsum = Zero /\ c_out[1].cacl2 = Zero
    /\ c_out[1].epsom = Zero /\ c_out[1].salt = Zero
    /\ c_out[1].lime = Zero /\ c_out[1].acid = Zero
    /\ c_out[1].acid_g = Zero

\* C8, its case: a call without water whose other arguments would ask for
\* salts: a dark beer, grain, and every ion target positive.
ChemistryCalledWithoutWater ==
  /\ c_in # None /\ c_out # None
  /\ FLe(c_in[1].water_vol, Zero)
  /\ FLt(Zero, c_in[1].grain_wt)
  /\ FLt(Zero, c_in[1].tgt_ca) /\ FLt(Zero, c_in[1].tgt_mg)
  /\ FLt(Zero, c_in[1].tgt_na) /\ FLt(Zero, c_in[1].tgt_so4)
  /\ FLt(Zero, c_in[1].tgt_cl)

====
